---- MODULE Spec2Model ----
(***************************************************************************)
(* Model of the Postfix SMTP server SASL glue (smtpd_sasl_glue.c) with the *)
(* Password Server mechanisms LOGIN, PLAIN and CRAM-MD5.                   *)
(*                                                                         *)
(* Strings are sequences of byte values (0..255).  A C string is the part  *)
(* of a buffer before its first NUL byte.  The process blocks in           *)
(* smtpd_chat_query(); pc names the read the process is blocked in.        *)
(***************************************************************************)
EXTENDS Integers, Sequences, FiniteSets, TLC

(***************************************************************************)
(* Bounds of the model.                                                    *)
(***************************************************************************)
MaxPlainLen == 4   \* longest decoded PLAIN payload offered by a client
MaxLoginLen == 1   \* longest decoded LOGIN answer offered by a client
MaxCramLen == 3    \* longest decoded CRAM-MD5 answer offered by a client
MaxRounds == 1     \* most XSASL_AUTH_MORE rounds the backend asks for
MaxConnects == 1   \* connections served by the process

(***************************************************************************)
(* Byte strings.                                                           *)
(***************************************************************************)
NUL == 0
SP == 32
STAR == <<42>>                       \* the line "*"

RECURSIVE SeqsUpTo(_, _)
SeqsUpTo(S, n) ==
    IF n = 0 THEN {<<>>}
    ELSE LET T == SeqsUpTo(S, n - 1)
         IN  T \cup {Append(t, b) : t \in {u \in T : Len(u) = n - 1}, b \in S}

\* index of the first occurrence of byte b in s at or after position i,
\* 0 when there is none
RECURSIVE IndexFrom(_, _, _)
IndexFrom(s, b, i) ==
    IF i > Len(s) THEN 0
    ELSE IF s[i] = b THEN i
    ELSE IndexFrom(s, b, i + 1)

\* the C string that starts at position i of a NUL-terminated buffer
CStrAt(buf, i) ==
    LET z == IndexFrom(buf, NUL, i)
    IN  IF z = 0 THEN SubSeq(buf, i, Len(buf)) ELSE SubSeq(buf, i, z - 1)

\* STR(vs) read as a C string: the bytes before the first NUL
CStr(s) == CStrAt(s, 1)

ToUpper(c) == IF c >= 97 /\ c <= 122 THEN c - 32 ELSE c

strcasecmp(s, t) ==
    IF Len(s) = Len(t) /\ \A i \in 1..Len(s) : ToUpper(s[i]) = ToUpper(t[i])
    THEN 0 ELSE 1

strcmp(s, t) == IF s = t THEN 0 ELSE 1

IsPrint(c) == c >= 32 /\ c <= 126

printable(s) == [i \in 1..Len(s) |-> IF IsPrint(s[i]) THEN s[i] ELSE 63]

(***************************************************************************)
(* Base64 codec.                                                           *)
(***************************************************************************)
PAD == 61
INVALID == 255

to_b64(i) ==
    IF i < 26 THEN 65 + i
    ELSE IF i < 52 THEN 71 + i
    ELSE IF i < 62 THEN i - 4
    ELSE IF i = 62 THEN 43 ELSE 47

un_b64(c) ==
    IF c >= 65 /\ c <= 90 THEN c - 65
    ELSE IF c >= 97 /\ c <= 122 THEN c - 71
    ELSE IF c >= 48 /\ c <= 57 THEN c + 4
    ELSE IF c = 43 THEN 62
    ELSE IF c = 47 THEN 63 ELSE INVALID

RECURSIVE base64_encode(_)
base64_encode(s) ==
    IF Len(s) = 0 THEN <<>>
    ELSE IF Len(s) = 1 THEN
        << to_b64(s[1] \div 4), to_b64((s[1] % 4) * 16), PAD, PAD >>
    ELSE IF Len(s) = 2 THEN
        << to_b64(s[1] \div 4), to_b64((s[1] % 4) * 16 + s[2] \div 16),
           to_b64((s[2] % 16) * 4), PAD >>
    ELSE
        << to_b64(s[1] \div 4), to_b64((s[1] % 4) * 16 + s[2] \div 16),
           to_b64((s[2] % 16) * 4 + s[3] \div 64), to_b64(s[3] % 64) >>
        \o base64_encode(SubSeq(s, 4, Len(s)))

\* the decoded bytes, or Failed (the C function returns 0)
Failed == [ok |-> FALSE, str |-> <<>>]
Decoded(s) == [ok |-> TRUE, str |-> s]

RECURSIVE b64_groups(_)
b64_groups(t) ==
    IF Len(t) = 0 THEN Decoded(<<>>)
    ELSE
      LET ch0 == un_b64(t[1])
          ch1 == un_b64(t[2])
          ch2 == un_b64(t[3])
          ch3 == un_b64(t[4])
          last == Len(t) = 4
      IN  IF ch0 = INVALID \/ ch1 = INVALID THEN Failed
          ELSE IF t[3] = PAD THEN
              IF last /\ t[4] = PAD
              THEN Decoded(<< ch0 * 4 + ch1 \div 16 >>) ELSE Failed
          ELSE IF ch2 = INVALID THEN Failed
          ELSE IF t[4] = PAD THEN
              IF last
              THEN Decoded(<< ch0 * 4 + ch1 \div 16,
                              (ch1 % 16) * 16 + ch2 \div 4 >>)
              ELSE Failed
          ELSE IF ch3 = INVALID THEN Failed
          ELSE LET rest == b64_groups(SubSeq(t, 5, Len(t)))
               IN  IF rest.ok
                   THEN Decoded(<< ch0 * 4 + ch1 \div 16,
                                   (ch1 % 16) * 16 + ch2 \div 4,
                                   (ch2 % 4) * 64 + ch3 >> \o rest.str)
                   ELSE Failed

base64_decode(t) == IF Len(t) % 4 # 0 THEN Failed ELSE b64_groups(t)


(***************************************************************************)
(* Text of the program: mechanism names, prompts, replies.                 *)
(***************************************************************************)
LOGIN == <<76, 79, 71, 73, 78>>                  \* "LOGIN"
PLAIN == <<80, 76, 65, 73, 78>>                  \* "PLAIN"
CRAM_MD5 == <<67, 82, 65, 77, 45, 77, 68, 53>>   \* "CRAM-MD5"
UsernamePrompt == <<85, 115, 101, 114, 110, 97, 109, 101, 58>>  \* "Username:"
PasswordPrompt == <<80, 97, 115, 115, 119, 111, 114, 100, 58>>  \* "Password:"

\* bits of smtpd_pw_server_sasl_opts
PW_SERVER_LOGIN == 1
PW_SERVER_PLAIN == 2
PW_SERVER_CRAM_MD5 == 4
PW_SERVER_GSSAPI == 8

\* opts & bit, for a bit that is a power of two
BitSet(opts, bit) == (opts \div bit) % 2 = 1

\* a pointer that is null, or points to a value
Null == <<>>
Ptr(v) == <<v>>
Val(p) == p[1]

(***************************************************************************)
(* What a handler does to the outside: replies written, lines read, calls  *)
(* to the backend and to the directory service, in order.                  *)
(***************************************************************************)
\* op: the routine; a, b, c: its arguments; r: what it returned
Ev(op, a, b, c, r) == [op |-> op, a |-> a, b |-> b, c |-> c, r |-> r]
\* a reply with this format string and argument, a line read
smtpd_chat_reply(fmt, arg) == Ev("smtpd_chat_reply", arg, <<>>, <<>>, fmt)
smtpd_chat_query(line) == Ev("smtpd_chat_query", line, <<>>, <<>>, "")
\* backend calls: text is what the call leaves in sasl_reply
xsasl_server_first(method, init, text, status) ==
    Ev("xsasl_server_first", method, init, text, status)
xsasl_server_next(line, text, status) ==
    Ev("xsasl_server_next", line, <<>>, text, status)
xsasl_server_get_username(username) ==
    Ev("xsasl_server_get_username", username, <<>>, <<>>, "")
\* directory service calls
od_do_clear_text_auth(in_user, in_passwd, res) ==
    Ev("od_do_clear_text_auth", in_user, in_passwd, <<>>, res)
od_validate_response(in_user, in_chal, in_resp, res) ==
    Ev("od_validate_response", in_user, in_chal, in_resp, res)

\* backend calls of the lifecycle operations: the handle or list returned
xsasl_server_init(impl) == Ev("xsasl_server_init", <<>>, <<>>, <<>>, impl)
xsasl_server_create(server) ==
    Ev("xsasl_server_create", <<>>, <<>>, <<>>, server)
xsasl_server_get_mechanism_list(server, list) ==
    Ev("xsasl_server_get_mechanism_list", server, <<>>, list, "")
\* releases: of the storage a field of the session state points to, and of
\* a backend context
vstring_free(fld) == Ev("vstring_free", <<>>, <<>>, <<>>, fld)
myfree(fld) == Ev("myfree", <<>>, <<>>, <<>>, fld)
xsasl_server_free(server) ==
    Ev("xsasl_server_free", server, <<>>, <<>>, "sasl_server")

\* results of the directory service calls
eAOD_no_error == "eAOD_no_error"
AODResults == {eAOD_no_error, "eAOD_passwd_mismatch"}

\* results of the backend calls
XSASL_AUTH_MORE == "XSASL_AUTH_MORE"
XSASL_AUTH_DONE == "XSASL_AUTH_DONE"
XSASL_AUTH_FAIL == "XSASL_AUTH_FAIL"
XSASLStatus == {XSASL_AUTH_MORE, XSASL_AUTH_DONE, XSASL_AUTH_FAIL}

(***************************************************************************)
(* Inputs offered by the environment.                                      *)
(***************************************************************************)
login == <<108, 111, 103, 105, 110>>              \* "login"
Methods == {login, PLAIN, CRAM_MD5, <<88, 7>>}
BadLine == <<97, 33, 97, 97>>                     \* "a!aa", not base64
PlainPayloads == SeqsUpTo({NUL, 97, 98}, MaxPlainLen)
LoginPayloads == SeqsUpTo({NUL, 7, 97}, MaxLoginLen)
CramPayloads == SeqsUpTo({NUL, SP, 97}, MaxCramLen)
LinesOf(payloads) == {base64_encode(p) : p \in payloads} \cup {STAR, BadLine}
PlainLines == LinesOf(PlainPayloads)
LoginLines == LinesOf(LoginPayloads)
CramLines == LinesOf(CramPayloads)
Junk == {<<>>, <<98>>}                 \* C strings found past a buffer's end
\* what a backend call leaves in sasl_reply: a challenge, nothing, or a
\* diagnostic text
BackendText(status) ==
    IF status = XSASL_AUTH_MORE THEN {<<97>>}
    ELSE IF status = XSASL_AUTH_DONE THEN {<<>>}
    ELSE {<<>>, <<98>>}
BackendUsers == {Null, Ptr(<<97>>), Ptr(<<7, 97>>)}
MechanismLists == {Null, Ptr(<<PLAIN, LOGIN>>), Ptr(<<CRAM_MD5>>)}


(***************************************************************************)
(* State.                                                                  *)
(***************************************************************************)
VARIABLES
    proc,                       \* "up", or how the process ended
    smtpd_sasl_impl,            \* SASL server implementation handle, 0 = null
    smtpd_pw_server_sasl_opts,  \* bitmask of the enabled mechanisms
    nconn,                      \* server contexts created so far
    sasl_reply,                 \* state->sasl_reply: null or its content
    sasl_mechanism_list,        \* state->sasl_mechanism_list
    sasl_username,              \* state->sasl_username
    sasl_method,                \* state->sasl_method
    sasl_sender,                \* state->sasl_sender
    sasl_server,                \* state->sasl_server, 0 = null
    freed,                      \* server contexts released so far
    pc,                         \* "idle", or the read the handler waits in
    call,                       \* the authenticate call that is running or
                                \*   was the last operation, if any
    rounds,                     \* XSASL_AUTH_MORE results in this attempt
    vs_base64,                  \* the static buffers of the handler that
    vs_user,                    \*   runs or ran in that call (a handler
    vs_pwd,                     \*   allocates its own anew in every call and
    vs_chal,                    \*   frees none; the others are kept empty)
    rand_buf,                   \* the bytes get_random_chars has kept so far
    events,                     \* what that call has done so far
    result                      \* what that attempt returned

\* a call of api with these arguments, made when the context held the
\* identity (username, method)
Call(api, method, init_response, username, mth) ==
    [api |-> api, method |-> method, init_response |-> init_response,
     sasl_username |-> username, sasl_method |-> mth]

NoCall == Call("none", <<>>, Null, Null, Null)

ctx == << sasl_reply, sasl_mechanism_list, sasl_sender, sasl_server, freed >>
ident == << sasl_username, sasl_method >>
statics == << vs_base64, vs_user, vs_pwd, vs_chal, rand_buf >>
global == << smtpd_sasl_impl, smtpd_pw_server_sasl_opts, nconn >>
attempt == << pc, call, rounds, events, result >>
vars == << proc, global, ctx, ident, statics, attempt >>

Init ==
    /\ proc = "up"
    /\ smtpd_sasl_impl = 0
    /\ smtpd_pw_server_sasl_opts = 0
    /\ nconn = 0
    /\ sasl_reply = Null
    /\ sasl_mechanism_list = Null
    /\ sasl_username = Null
    /\ sasl_method = Null
    /\ sasl_sender = Null
    /\ sasl_server = 0
    /\ freed = {}
    /\ pc = "idle"
    /\ call = NoCall
    /\ rounds = 0
    /\ vs_base64 = <<>>
    /\ vs_user = <<>>
    /\ vs_pwd = <<>>
    /\ vs_chal = <<>>
    /\ rand_buf = <<>>
    /\ events = <<>>
    /\ result = "none"

Idle == proc = "up" /\ pc = "idle"

\* no handler with static buffers runs
NoHandler ==
    /\ vs_base64' = <<>>
    /\ vs_user' = <<>>
    /\ vs_pwd' = <<>>
    /\ vs_chal' = <<>>
    /\ rand_buf' = <<>>

\* an operation other than an authenticate call has run: op, and the calls
\* evs it made; no authenticate call and no handler left to report
NoAttempt(op, evs) ==
    /\ pc' = "idle"
    /\ call' = NoCall
    /\ rounds' = 0
    /\ events' = evs
    /\ result' = op
    /\ NoHandler
Connected == sasl_server # 0

(***************************************************************************)
(* smtpd_sasl_initialize - per-process initialization                      *)
(***************************************************************************)
\* as RepeatedCall, with the sanity check left out
RepeatedCall_Unchecked(impl) == FALSE

\* the sanity check: the implementation handle is set already
RepeatedCall(impl) == impl # 0

smtpd_sasl_initialize(in_use_pw_server, mask, impl) ==
    /\ Idle
    /\ smtpd_pw_server_sasl_opts' =
           IF in_use_pw_server THEN mask ELSE smtpd_pw_server_sasl_opts
    /\ IF RepeatedCall(smtpd_sasl_impl)
       THEN /\ proc' = "msg_panic"
            /\ NoAttempt("smtpd_sasl_initialize", <<>>)
            /\ UNCHANGED smtpd_sasl_impl
       ELSE /\ smtpd_sasl_impl' = impl
            /\ NoAttempt("smtpd_sasl_initialize",
                         << xsasl_server_init(impl) >>)
            /\ proc' = IF impl = 0 THEN "msg_fatal" ELSE "up"
    /\ UNCHANGED << nconn, ctx, ident >>

(***************************************************************************)
(* smtpd_sasl_connect - per-connection initialization                      *)
(***************************************************************************)
\* as MechanismListKept, with the list not stored
MechanismListKept_Dropped(mechanism_list) == Null

\* mystrdup(mechanism_list): a copy of the list, when there is one
MechanismListKept(mechanism_list) ==
    IF mechanism_list = Null THEN Null ELSE Ptr(Val(mechanism_list))

smtpd_sasl_connect(server_ok, mechanism_list) ==
    /\ Idle
    /\ smtpd_sasl_impl # 0
    /\ ~Connected
    /\ nconn < MaxConnects
    /\ sasl_reply' = Ptr(<<>>)
    /\ sasl_username' = Null
    /\ sasl_method' = Null
    /\ sasl_sender' = Null
    /\ IF ~server_ok
       THEN /\ sasl_server' = 0
            /\ sasl_mechanism_list' = Null
            /\ proc' = "msg_fatal"
            /\ NoAttempt("smtpd_sasl_connect", << xsasl_server_create(0) >>)
            /\ UNCHANGED nconn
       ELSE /\ nconn' = nconn + 1
            /\ sasl_server' = nconn + 1
            /\ sasl_mechanism_list' = MechanismListKept(mechanism_list)
            /\ proc' = IF mechanism_list = Null THEN "msg_fatal" ELSE "up"
            /\ NoAttempt("smtpd_sasl_connect",
                   << xsasl_server_create(nconn + 1),
                      xsasl_server_get_mechanism_list(nconn + 1,
                                                      mechanism_list) >>)
    /\ UNCHANGED << smtpd_sasl_impl, smtpd_pw_server_sasl_opts, freed >>

(***************************************************************************)
(* smtpd_sasl_disconnect - per-connection cleanup                          *)
(***************************************************************************)
\* as Released, with the pointer left dangling
Released_Dangling(p) == p

\* the value of a pointer after "if (p) { free(p); p = 0; }"
Released(p) == Null

\* the release call made for it, if it is not null
ReleaseCall(p, ev) == IF p = Null THEN <<>> ELSE << ev >>

\* as ReleasedServer, with the pointer left dangling
ReleasedServer_Dangling(server) == server

\* the same for the backend context
ReleasedServer(server) == 0
ReleaseServerCall(server) ==
    IF server = 0 THEN <<>> ELSE << xsasl_server_free(server) >>

smtpd_sasl_disconnect ==
    /\ Idle
    /\ sasl_reply' = Released(sasl_reply)
    /\ sasl_mechanism_list' = Released(sasl_mechanism_list)
    /\ sasl_username' = Released(sasl_username)
    /\ sasl_method' = Released(sasl_method)
    /\ sasl_sender' = Released(sasl_sender)
    /\ sasl_server' = ReleasedServer(sasl_server)
    /\ freed' = IF sasl_server # 0 THEN freed \cup {sasl_server} ELSE freed
    /\ NoAttempt("smtpd_sasl_disconnect",
           ReleaseCall(sasl_reply, vstring_free("sasl_reply"))
           \o ReleaseCall(sasl_mechanism_list, myfree("sasl_mechanism_list"))
           \o ReleaseCall(sasl_username, myfree("sasl_username"))
           \o ReleaseCall(sasl_method, myfree("sasl_method"))
           \o ReleaseCall(sasl_sender, myfree("sasl_sender"))
           \o ReleaseServerCall(sasl_server))
    /\ UNCHANGED << proc, global >>

(***************************************************************************)
(* smtpd_sasl_logout - clean up after smtpd_sasl_authenticate              *)
(***************************************************************************)
smtpd_sasl_logout ==
    /\ Idle
    /\ sasl_username' = Released(sasl_username)
    /\ sasl_method' = Released(sasl_method)
    /\ NoAttempt("smtpd_sasl_logout",
           ReleaseCall(sasl_username, myfree("sasl_username"))
           \o ReleaseCall(sasl_method, myfree("sasl_method")))
    /\ UNCHANGED << proc, global, ctx >>


(***************************************************************************)
(* smtpd_sasl_authenticate - per-session authentication through the SASL   *)
(* backend.  The call runs up to its first smtpd_chat_query(); every line  *)
(* the client sends resumes it up to the next one.                         *)
(***************************************************************************)
\* as ClientGivesUp, with the test left out
ClientGivesUp_Never(line) == FALSE

\* "*" means that the client gives up
ClientGivesUp(line) == strcmp(CStr(line), STAR) = 0

\* as WriteFails, with the user name stored before the reply is written
WriteFails_IdentityFirst(evs) ==
    /\ events' = evs
    /\ result' = "longjmp"
    /\ pc' = "idle"
    /\ sasl_username' = Ptr(<<>>)
    /\ UNCHANGED << proc, sasl_method >>

\* smtpd_chat_reply, the last of evs, returns abnormally after timeout or
\* I/O error: the call is left there and never resumed
WriteFails(evs) ==
    /\ events' = evs
    /\ result' = "longjmp"
    /\ pc' = "idle"
    /\ UNCHANGED << proc, ident >>

\* as AuthFailed, with the test left out
AuthFailed_Never(status) == FALSE

\* the test behind the loop
AuthFailed(status) == status # XSASL_AUTH_DONE

\* the loop condition and what follows the loop, after a backend call has
\* returned status and left text in sasl_reply
AfterBackendCall(evs, method, n, status, text, username) ==
    /\ sasl_reply' = Ptr(text)
    /\ IF status = XSASL_AUTH_MORE THEN
          \/ /\ events' = Append(evs, smtpd_chat_reply("334 %s", text))
             /\ rounds' = n + 1
             /\ pc' = "smtpd_sasl_authenticate"
             /\ result' = "running"
             /\ UNCHANGED << proc, ident >>
          \/ /\ WriteFails(Append(evs, smtpd_chat_reply("334 %s", text)))
             /\ rounds' = n + 1
       ELSE IF AuthFailed(status) THEN
          /\ rounds' = n
          /\ \/ /\ events' = Append(evs, smtpd_chat_reply(
                        "535 5.7.8 Error: authentication failed: %s", text))
                /\ pc' = "idle"
                /\ result' = "-1"
                /\ UNCHANGED << proc, ident >>
             \/ WriteFails(Append(evs, smtpd_chat_reply(
                    "535 5.7.8 Error: authentication failed: %s", text)))
       ELSE
          /\ rounds' = n
          /\ \/ /\ events' = evs \o
                        << smtpd_chat_reply(
                               "235 2.7.0 Authentication successful", <<>>),
                           xsasl_server_get_username(username) >>
                /\ pc' = "idle"
                /\ IF username = Null
                   THEN /\ proc' = "msg_panic"
                        /\ result' = "msg_panic"
                        /\ UNCHANGED ident
                   ELSE /\ sasl_username' = Ptr(printable(Val(username)))
                        /\ sasl_method' = Ptr(printable(method))
                        /\ result' = "0"
                        /\ UNCHANGED proc
             \/ WriteFails(Append(evs, smtpd_chat_reply(
                    "235 2.7.0 Authentication successful", <<>>)))

smtpd_sasl_authenticate(method, init_response, status, text, username) ==
    /\ Idle
    /\ Connected
    /\ call = NoCall
    /\ status = XSASL_AUTH_MORE => MaxRounds > 0
    /\ call' = Call("smtpd_sasl_authenticate", method, init_response,
                    sasl_username, sasl_method)
    /\ AfterBackendCall(<< xsasl_server_first(method, init_response,
                                               text, status) >>,
                        method, 0, status, text, username)
    /\ NoHandler
    /\ UNCHANGED << global, sasl_mechanism_list, sasl_sender, sasl_server,
                    freed >>

smtpd_sasl_authenticate_line(line, status, text, username) ==
    /\ proc = "up"
    /\ pc = "smtpd_sasl_authenticate"
    /\ status = XSASL_AUTH_MORE => rounds < MaxRounds
    /\ IF ClientGivesUp(line)
       THEN /\ \/ /\ events' = events \o
                        << smtpd_chat_query(line),
                           smtpd_chat_reply(
                               "501 5.7.0 Authentication aborted", <<>>) >>
                  /\ pc' = "idle"
                  /\ result' = "-1"
                  /\ UNCHANGED << proc, ident >>
               \/ WriteFails(events \o
                        << smtpd_chat_query(line),
                           smtpd_chat_reply(
                               "501 5.7.0 Authentication aborted", <<>>) >>)
            /\ UNCHANGED << rounds, sasl_reply >>
       ELSE AfterBackendCall(events \o << smtpd_chat_query(line),
                                          xsasl_server_next(line, text,
                                                            status) >>,
                             call.method, rounds, status, text, username)
    /\ UNCHANGED << global, sasl_mechanism_list, sasl_sender, sasl_server,
                    freed, statics, call >>


(***************************************************************************)
(* smtpd_pw_server_authenticate and its three handlers.  A handler returns *)
(* the reply for the client, or NULL after it has stored the identity.     *)
(***************************************************************************)
\* as Return, with the user name stored whatever the reply
Return_StoresUser(evs, reply) ==
    /\ events' = evs
    /\ result' = reply
    /\ pc' = "idle"
    /\ sasl_username' = Ptr(CStr(vs_user))
    /\ UNCHANGED << proc, sasl_method >>

\* a handler returns a reply
Return(evs, reply) ==
    /\ events' = evs
    /\ result' = reply
    /\ pc' = "idle"
    /\ UNCHANGED << proc, ident >>

\* as ReturnNull, with the copy of the method name forgotten
ReturnNull_UsernameOnly(evs, user, method) ==
    /\ events' = evs
    /\ result' = "NULL"
    /\ pc' = "idle"
    /\ sasl_username' = Ptr(user)
    /\ UNCHANGED << proc, sasl_method >>

\* a handler stores the identity and returns NULL
ReturnNull(evs, user, method) ==
    /\ events' = evs
    /\ result' = "NULL"
    /\ pc' = "idle"
    /\ sasl_username' = Ptr(user)
    /\ sasl_method' = Ptr(method)
    /\ UNCHANGED proc

\* a handler sends a challenge and waits for the client's line, unless the
\* write fails
Challenge(evs, fmt, arg, at) ==
    \/ /\ events' = Append(evs, smtpd_chat_reply(fmt, arg))
       /\ result' = "running"
       /\ pc' = at
       /\ UNCHANGED << proc, ident >>
    \/ WriteFails(Append(evs, smtpd_chat_reply(fmt, arg)))

\* as LoginEnabled, testing the bit beside it
LoginEnabled_WrongBit(opts) == BitSet(opts, PW_SERVER_PLAIN)

LoginEnabled(opts) == BitSet(opts, PW_SERVER_LOGIN)
PlainEnabled(opts) == BitSet(opts, PW_SERVER_PLAIN)
CramMd5Enabled(opts) == BitSet(opts, PW_SERVER_CRAM_MD5)

(***************************************************************************)
(* do_auth_login                                                           *)
(***************************************************************************)
do_auth_login(method) ==
    /\ vs_user' = <<>>
    /\ vs_pwd' = <<>>
    /\ vs_chal' = <<>>
    /\ rand_buf' = <<>>
    /\ IF ~LoginEnabled(smtpd_pw_server_sasl_opts)
       THEN /\ vs_base64' = <<>>
            /\ Return(<<>>, "504 Authentication method not enabled")
       ELSE /\ vs_base64' = base64_encode(UsernamePrompt)
            /\ Challenge(<<>>, "334 %s", base64_encode(UsernamePrompt),
                         "do_auth_login:user")

\* as LoginPwd, reading the user name buffer
LoginPwd_ReadsUser(pwd) == CStr(vs_user)

\* the arguments of the clear text check, and the user name stored
LoginUser(user) == CStr(user)
LoginPwd(pwd) == CStr(pwd)

do_auth_login_user(line) ==
    /\ proc = "up"
    /\ pc = "do_auth_login:user"
    /\ LET evs == Append(events, smtpd_chat_query(line))
           dec == base64_decode(line)
       IN  IF ClientGivesUp(line)
           THEN /\ Return(evs, "501 Authentication aborted")
                /\ UNCHANGED statics
           ELSE IF ~dec.ok
           THEN /\ Return(evs,
                     "501 Authentication failed: malformed initial response")
                /\ UNCHANGED statics
           ELSE /\ vs_user' = dec.str
                /\ vs_base64' = base64_encode(PasswordPrompt)
                /\ Challenge(evs, "334 %s", base64_encode(PasswordPrompt),
                             "do_auth_login:pwd")
                /\ UNCHANGED << vs_pwd, vs_chal, rand_buf >>
    /\ UNCHANGED << global, ctx, call, rounds >>

do_auth_login_pwd(line) ==
    /\ proc = "up"
    /\ pc = "do_auth_login:pwd"
    /\ LET evs == Append(events, smtpd_chat_query(line))
           dec == base64_decode(line)
       IN  IF ClientGivesUp(line)
           THEN /\ Return(evs, "501 Authentication aborted")
                /\ UNCHANGED statics
           ELSE IF ~dec.ok
           THEN /\ Return(evs,
                     "501 Authentication failed: malformed response")
                /\ UNCHANGED statics
           ELSE /\ vs_pwd' = dec.str
                /\ UNCHANGED << vs_base64, vs_user, vs_chal, rand_buf >>
                /\ \E res \in AODResults :
                     LET chk == od_do_clear_text_auth(LoginUser(vs_user),
                                                      LoginPwd(dec.str), res)
                     IN  IF res = eAOD_no_error
                         THEN ReturnNull(Append(evs, chk),
                                         LoginUser(vs_user), call.method)
                         ELSE Return(Append(evs, chk),
                                     "535 Error: authentication failed")
    /\ UNCHANGED << global, ctx, call, rounds >>


(***************************************************************************)
(* do_auth_plain                                                           *)
(***************************************************************************)
\* as PlainUserAt, with the leading NUL not skipped
PlainUserAt_NoSkip(buf) == 1

\* where p_user points in the decoded buffer: a leading NUL is skipped
PlainUserAt(buf) == IF buf[1] = NUL THEN 2 ELSE 1

\* where p_pwd points: behind p_user and its terminator
PlainPwdAt(at, p_user) == at + (Len(p_user) + 1)

\* the C strings a pointer into the buffer can be read as: inside the
\* buffer the bytes up to the next NUL, behind it whatever the heap holds
PlainField(buf, at) == IF at <= Len(buf) THEN {CStrAt(buf, at)} ELSE Junk

\* lines 606-634: the decoded payload, followed by its terminator, is
\* split and checked
do_auth_plain_check(evs, method, payload) ==
    LET buf == Append(payload, NUL)
    IN  \E p_user \in PlainField(buf, PlainUserAt(buf)) :
        \E p_pwd \in PlainField(buf, PlainPwdAt(PlainUserAt(buf), p_user)) :
        \E res \in AODResults :
            LET chk == od_do_clear_text_auth(p_user, p_pwd, res)
            IN  IF res = eAOD_no_error
                THEN ReturnNull(Append(evs, chk), p_user, method)
                ELSE Return(Append(evs, chk),
                            "535 Error: authentication failed")

do_auth_plain_decode(evs, method, text) ==
    LET dec == base64_decode(text)
    IN  IF ~dec.ok
        THEN /\ vs_base64' = <<>>
             /\ Return(evs,
                    "501 Authentication failed: malformed initial response")
        ELSE /\ vs_base64' = dec.str
             /\ do_auth_plain_check(evs, method, dec.str)

\* as do_auth_plain, doing the dance whether or not there is an initial
\* response
do_auth_plain_AlwaysAsks(method, in_resp) ==
    /\ vs_user' = <<>>
    /\ vs_pwd' = <<>>
    /\ vs_chal' = <<>>
    /\ rand_buf' = <<>>
    /\ IF ~PlainEnabled(smtpd_pw_server_sasl_opts)
       THEN /\ vs_base64' = <<>>
            /\ Return(<<>>, "504 Authentication method not enabled")
       ELSE /\ vs_base64' = <<>>
            /\ Challenge(<<>>, "334", <<>>, "do_auth_plain")

do_auth_plain(method, in_resp) ==
    /\ vs_user' = <<>>
    /\ vs_pwd' = <<>>
    /\ vs_chal' = <<>>
    /\ rand_buf' = <<>>
    /\ IF ~PlainEnabled(smtpd_pw_server_sasl_opts)
       THEN /\ vs_base64' = <<>>
            /\ Return(<<>>, "504 Authentication method not enabled")
       ELSE IF in_resp = Null
       THEN /\ vs_base64' = <<>>
            /\ Challenge(<<>>, "334", <<>>, "do_auth_plain")
       ELSE do_auth_plain_decode(<<>>, method, CStr(Val(in_resp)))

do_auth_plain_line(line) ==
    /\ proc = "up"
    /\ pc = "do_auth_plain"
    /\ do_auth_plain_decode(Append(events, smtpd_chat_query(line)),
                            call.method, line)
    /\ UNCHANGED << global, ctx, call, rounds, vs_user, vs_pwd, vs_chal,
                    rand_buf >>

(***************************************************************************)
(* get_random_chars and do_auth_cram_md5                                   *)
(***************************************************************************)
\* as IsAlnum, for a source that yields no byte the loop keeps
IsAlnum_Never(c) == FALSE

IsAlnum(c) ==
    \/ c >= 48 /\ c <= 57
    \/ c >= 65 /\ c <= 90
    \/ c >= 97 /\ c <= 122

RECURSIVE Decimal(_)
Decimal(n) ==
    IF n < 10 THEN << 48 + n >>
    ELSE Append(Decimal(n \div 10), 48 + (n % 10))

\* the first n bytes of s
Prefix(s, n) == SubSeq(s, 1, IF n < Len(s) THEN n ELSE Len(s))

\* neither /dev/urandom nor /dev/random opens: the buffer gets the time in
\* microseconds
TimeChars(in_len, tv_sec, tv_usec) ==
    Prefix(Decimal(tv_sec * 1000000 + tv_usec), in_len - 1)

\* "<%lu.-%s.-%lu-@-%s>"
ChallengeString(pid, rand, time, host_name) ==
    <<60>> \o Decimal(pid) \o <<46, 45>> \o CStr(rand) \o <<46, 45>>
        \o Decimal(time) \o <<45, 64, 45>> \o CStr(host_name) \o <<62>>

RandBufLen == 17
\* what open() returns for the random device: -1, or a descriptor
Files == {-1, 3}
\* the bytes a read of the device leaves in the buffer: "!" or "A"
RandomBytes == {33, 65}
HostName == <<104>>                               \* "h"

\* get_random_chars has filled the buffer with rand: the handler makes the
\* challenge and sends it
CramChallenge(rand) ==
    LET chal == ChallengeString(1, rand, 1000, HostName)
    IN  /\ vs_chal' = chal
        /\ vs_base64' = base64_encode(chal)
        /\ rand_buf' = <<>>
        /\ Challenge(<<>>, "334 %s", base64_encode(chal), "do_auth_cram_md5")

do_auth_cram_md5(method) ==
    /\ vs_user' = <<>>
    /\ vs_pwd' = <<>>
    /\ IF ~CramMd5Enabled(smtpd_pw_server_sasl_opts)
       THEN /\ vs_base64' = <<>>
            /\ vs_chal' = <<>>
            /\ rand_buf' = <<>>
            /\ Return(<<>>, "504 Authentication method not enabled")
       ELSE \E file \in Files :
            IF file = -1
            THEN CramChallenge(TimeChars(RandBufLen, 1, 700000))
            ELSE /\ vs_base64' = <<>>
                 /\ vs_chal' = <<>>
                 /\ rand_buf' = <<>>
                 /\ events' = <<>>
                 /\ result' = "running"
                 /\ pc' = "get_random_chars"
                 /\ UNCHANGED << proc, ident >>

\* one round of the loop of get_random_chars: it reads a byte into the
\* buffer and keeps it if it is alphanumeric; with in_len - 1 bytes kept the
\* function returns to do_auth_cram_md5
get_random_chars_read(byte) ==
    /\ proc = "up"
    /\ pc = "get_random_chars"
    /\ LET out_buf == IF IsAlnum(byte) THEN Append(rand_buf, byte)
                      ELSE rand_buf
       IN  IF Len(out_buf) < RandBufLen - 1
           THEN /\ rand_buf' = out_buf
                /\ UNCHANGED << proc, ident, vs_base64, vs_chal, pc, events,
                                result >>
           ELSE CramChallenge(out_buf)
    /\ UNCHANGED << global, ctx, call, rounds, vs_user, vs_pwd >>

\* as CramResponse, with the step over the space forgotten
CramResponse_KeepsSpace(resp, sp) == SubSeq(resp, sp, Len(resp))

\* the response handed to od_validate_response: the C string behind the
\* first space, which is at position sp of the decoded response
CramResponse(resp, sp) == SubSeq(resp, sp + 1, Len(resp))

do_auth_cram_md5_line(line) ==
    /\ proc = "up"
    /\ pc = "do_auth_cram_md5"
    /\ LET evs == Append(events, smtpd_chat_query(line))
           dec == base64_decode(line)
           resp == CStr(dec.str)
           sp == IndexFrom(resp, SP, 1)
       IN  IF ClientGivesUp(line)
           THEN /\ Return(evs, "501 Authentication aborted")
                /\ UNCHANGED statics
           ELSE IF ~dec.ok
           THEN /\ Return(evs,
                     "501 Authentication failed: malformed initial response")
                /\ UNCHANGED statics
           ELSE IF sp = 0
           THEN /\ vs_base64' = dec.str
                /\ Return(evs, "535 Error: authentication failed")
                /\ UNCHANGED << vs_user, vs_pwd, vs_chal, rand_buf >>
           ELSE /\ vs_base64' = dec.str
                /\ vs_user' = SubSeq(resp, 1, sp - 1)
                /\ UNCHANGED << vs_pwd, vs_chal, rand_buf >>
                /\ \E res \in AODResults :
                     LET chk == od_validate_response(
                                     SubSeq(resp, 1, sp - 1), CStr(vs_chal),
                                     CramResponse(resp, sp), res)
                     IN  IF res = eAOD_no_error
                         THEN ReturnNull(Append(evs, chk),
                                         SubSeq(resp, 1, sp - 1), call.method)
                         ELSE Return(Append(evs, chk),
                                     "535 Error: authentication failed")
    /\ UNCHANGED << global, ctx, call, rounds >>

(***************************************************************************)
(* smtpd_pw_server_authenticate                                            *)
(***************************************************************************)
\* as AlreadyAuthenticated, with the sanity check left out
AlreadyAuthenticated_Unchecked(username, method) == FALSE

AlreadyAuthenticated(username, method) == username # Null \/ method # Null

smtpd_pw_server_authenticate(method, in_resp) ==
    /\ Idle
    /\ Connected
    /\ call = NoCall
    /\ call' = Call("smtpd_pw_server_authenticate", method, in_resp,
                    sasl_username, sasl_method)
    /\ rounds' = 0
    /\ IF AlreadyAuthenticated(sasl_username, sasl_method)
       THEN /\ proc' = "msg_panic"
            /\ events' = <<>>
            /\ result' = "msg_panic"
            /\ NoHandler
            /\ UNCHANGED << pc, ident >>
       ELSE IF strcasecmp(method, LOGIN) = 0 THEN do_auth_login(method)
       ELSE IF strcasecmp(method, PLAIN) = 0
            THEN do_auth_plain(method, in_resp)
       ELSE IF strcasecmp(method, CRAM_MD5) = 0
            THEN do_auth_cram_md5(method)
       ELSE /\ Return(<<>>, "504 Unsupported authentication method")
            /\ NoHandler
    /\ UNCHANGED << global, ctx >>

(***************************************************************************)
(* smtpd_chat_query returns abnormally after timeout or I/O error: the     *)
(* handler is left where it waits and never resumed.                       *)
(***************************************************************************)
smtpd_chat_query_fails ==
    /\ proc = "up"
    /\ pc \notin {"idle", "get_random_chars"}
    /\ pc' = "idle"
    /\ result' = "longjmp"
    /\ UNCHANGED << proc, global, ctx, ident, statics, call,
                    rounds, events >>

(***************************************************************************)
(* The authenticate call is over, with a result or after a failed read or  *)
(* write, and its caller goes on; only then can it make another call.      *)
(***************************************************************************)
CallerGoesOn ==
    /\ Idle
    /\ call # NoCall
    /\ NoAttempt("none", <<>>)
    /\ UNCHANGED << proc, global, ctx, ident >>

(***************************************************************************)
(* The caller of the module stores the sender a client names with          *)
(* MAIL FROM ... AUTH= in state->sasl_sender; the module only clears and   *)
(* releases the field.                                                     *)
(***************************************************************************)
Senders == {Ptr(<<97>>)}

CallerStoresSender(sender) ==
    /\ Idle
    /\ Connected
    /\ sasl_username # Null
    /\ sasl_sender = Null
    /\ sasl_sender' = sender
    /\ NoAttempt("sasl_sender", <<>>)
    /\ UNCHANGED << proc, global, ident, sasl_reply, sasl_mechanism_list,
                    sasl_server, freed >>

(***************************************************************************)
(* The specification.                                                      *)
(***************************************************************************)
Masks == {PW_SERVER_PLAIN,
          PW_SERVER_LOGIN + PW_SERVER_CRAM_MD5 + PW_SERVER_GSSAPI}
GenericMethods == {<<88, 7>>}
GenericLines == {STAR, <<97>>}
InitResponses == {Null, Ptr(<<97>>)}

\* the initial responses sent with AUTH PLAIN; on a context that has an
\* identity the call ends before it looks at the response, and one response
\* stands for all
PlainInitialResponses == {Null} \cup {Ptr(l) : l \in PlainLines}
PlainResponses ==
    IF sasl_username = Null /\ sasl_method = Null
    THEN PlainInitialResponses
    ELSE {Null, Ptr(BadLine)}

Next ==
    \/ \E in_use_pw_server \in BOOLEAN, mask \in Masks, impl \in {0, 1} :
           smtpd_sasl_initialize(in_use_pw_server, mask, impl)
    \/ \E server_ok \in BOOLEAN, list \in MechanismLists :
           smtpd_sasl_connect(server_ok, list)
    \/ smtpd_sasl_disconnect
    \/ smtpd_sasl_logout
    \/ \E method \in GenericMethods, init \in InitResponses,
          status \in XSASLStatus, username \in BackendUsers :
       \E text \in BackendText(status) :
           smtpd_sasl_authenticate(method, init, status, text, username)
    \/ \E line \in GenericLines, status \in XSASLStatus,
          username \in BackendUsers :
       \E text \in BackendText(status) :
           smtpd_sasl_authenticate_line(line, status, text, username)
    \/ \E method \in Methods \ {PLAIN} :
           smtpd_pw_server_authenticate(method, Null)
    \/ \E in_resp \in PlainResponses :
           smtpd_pw_server_authenticate(PLAIN, in_resp)
    \/ \E line \in LoginLines : do_auth_login_user(line)
    \/ \E line \in LoginLines : do_auth_login_pwd(line)
    \/ \E line \in PlainLines : do_auth_plain_line(line)
    \/ \E byte \in RandomBytes : get_random_chars_read(byte)
    \/ \E line \in CramLines : do_auth_cram_md5_line(line)
    \/ smtpd_chat_query_fails
    \/ \E sender \in Senders : CallerStoresSender(sender)
    \/ CallerGoesOn

Spec == Init /\ [][Next]_vars


(***************************************************************************)
(* Properties.                                                             *)
(***************************************************************************)
Generic == call.api = "smtpd_sasl_authenticate"
PwServer == call.api = "smtpd_pw_server_authenticate"

\* an authenticate call is running, or was the last operation and ended
\* otherwise than in a failed read
InAttempt == call.api # "none" /\ result # "longjmp"
\* the authenticate call has just ended
Returned == InAttempt /\ pc = "idle"
\* the call was made on a context without an identity
FreshCall == call.sasl_username = Null /\ call.sasl_method = Null

IsLogin == PwServer /\ strcasecmp(call.method, LOGIN) = 0
IsPlain == PwServer /\ strcasecmp(call.method, PLAIN) = 0
IsCramMd5 == PwServer /\ strcasecmp(call.method, CRAM_MD5) = 0

Ops(names) == SelectSeq(events, LAMBDA e : e.op \in names)
Replies == Ops({"smtpd_chat_reply"})
Queries == Ops({"smtpd_chat_query"})
StoreCalls == Ops({"od_do_clear_text_auth", "od_validate_response"})
BackendCalls == Ops({"xsasl_server_first", "xsasl_server_next",
                     "xsasl_server_get_username"})
Last(seq) == seq[Len(seq)]

Replies504 == {"504 Authentication method not enabled",
               "504 Unsupported authentication method"}
RepliesMalformed ==
    {"501 Authentication failed: malformed initial response",
     "501 Authentication failed: malformed response"}

\* C1: between operations, sasl_username is set if and only if sasl_method
\* is set.
C1_NoPartialIdentity == (sasl_username # Null) <=> (sasl_method # Null)

\* C1 witness: a handler has returned after storing an identity.
C1_Witness ==
    /\ Returned
    /\ result = "NULL"
    /\ sasl_username # Null
    /\ sasl_method # Null

\* C2: in every mechanism, an attempt on an unauthenticated context whose
\* last line read is "*" ends as aborted, with a 501 "Authentication
\* aborted" reply, and leaves sasl_username and sasl_method null.
C2_StarAborts ==
    (Returned /\ FreshCall /\ Queries # <<>> /\ Last(Queries).a = STAR)
    => /\ sasl_username = Null
       /\ sasl_method = Null
       /\ IF Generic
          THEN /\ result = "-1"
               /\ Last(Replies).r = "501 5.7.0 Authentication aborted"
          ELSE result = "501 Authentication aborted"

\* C3 as stated: an authenticate call on an authenticated context returns
\* a 504 reply without any challenge or read, keeps the identity and leaves
\* the process running.
C3_ReauthReturns504 ==
    (Returned /\ ~FreshCall)
    => /\ proc = "up"
       /\ result \in Replies504
       /\ events = <<>>
       /\ sasl_username = call.sasl_username
       /\ sasl_method = call.sasl_method

\* C3 amended: smtpd_pw_server_authenticate on an authenticated context
\* panics: the process ends, nothing is sent, read or checked, and the
\* identity is as before; smtpd_sasl_authenticate makes no such check and
\* starts the backend exchange.
C3_ReauthPanics ==
    (InAttempt /\ ~FreshCall)
    => IF PwServer
       THEN /\ proc = "msg_panic"
            /\ result = "msg_panic"
            /\ pc = "idle"
            /\ events = <<>>
            /\ sasl_username = call.sasl_username
            /\ sasl_method = call.sasl_method
       ELSE /\ events # <<>>
            /\ events[1].op = "xsasl_server_first"

\* C3 witness: the sanity check has ended the process.
C3_Witness ==
    /\ Returned
    /\ PwServer
    /\ ~FreshCall
    /\ proc = "msg_panic"

\* the mechanism asked for is none of the three, or its bit is not set
NotEnabled(method, opts) ==
    \/ strcasecmp(method, LOGIN) = 0 /\ ~BitSet(opts, PW_SERVER_LOGIN)
    \/ strcasecmp(method, PLAIN) = 0 /\ ~BitSet(opts, PW_SERVER_PLAIN)
    \/ strcasecmp(method, CRAM_MD5) = 0 /\ ~BitSet(opts, PW_SERVER_CRAM_MD5)
    \/ /\ strcasecmp(method, LOGIN) # 0
       /\ strcasecmp(method, PLAIN) # 0
       /\ strcasecmp(method, CRAM_MD5) # 0

\* C4: smtpd_pw_server_authenticate, called on an unauthenticated context
\* for a mechanism that is not enabled or not one of the three, returns a
\* 504 reply at once: no challenge, no read, no directory service call, and
\* no identity.
C4_DisabledReturns504 ==
    (InAttempt /\ PwServer /\ FreshCall
        /\ NotEnabled(call.method, smtpd_pw_server_sasl_opts))
    => /\ pc = "idle"
       /\ result \in Replies504
       /\ events = <<>>
       /\ sasl_username = Null
       /\ sasl_method = Null

\* C4 witness: LOGIN was asked for while its bit is not set.
C4_Witness ==
    /\ Returned
    /\ IsLogin
    /\ FreshCall
    /\ ~BitSet(smtpd_pw_server_sasl_opts, PW_SERVER_LOGIN)
    /\ result = "504 Authentication method not enabled"


\* the line read in round n of the attempt, and the bytes it decodes to
LineRead(n) == Queries[n].a
DecodedLine(n) == base64_decode(LineRead(n))

\* a CRAM-MD5 attempt has returned after decoding the client's response
CramDecoded ==
    /\ Returned
    /\ IsCramMd5
    /\ Len(Queries) = 1
    /\ LineRead(1) # STAR
    /\ DecodedLine(1).ok

\* C5: a CRAM-MD5 response that decodes to bytes without a space ends the
\* attempt with a 501 "malformed response" reply, not with 535, and
\* od_validate_response is not called.
C5_NoSpaceIsMalformed ==
    (CramDecoded /\ IndexFrom(DecodedLine(1).str, SP, 1) = 0)
    => /\ result \in RepliesMalformed
       /\ StoreCalls = <<>>

\* the challenge sent in a CRAM-MD5 attempt
CramChallengeSent == base64_decode(events[1].a).str

\* C6 as stated: when the decoded CRAM-MD5 response has a space,
\* od_validate_response is called once, with the bytes before the first
\* space, the challenge that was sent, and all bytes behind the first space;
\* the identity is stored, with that user name, iff the call succeeds.
C6_CramSplitsAllBytes ==
    LET resp == DecodedLine(1).str
        sp == IndexFrom(resp, SP, 1)
    IN  (CramDecoded /\ sp # 0)
        => /\ Len(StoreCalls) = 1
           /\ StoreCalls[1].op = "od_validate_response"
           /\ StoreCalls[1].a = SubSeq(resp, 1, sp - 1)
           /\ StoreCalls[1].b = CramChallengeSent
           /\ StoreCalls[1].c = SubSeq(resp, sp + 1, Len(resp))
           /\ IF StoreCalls[1].r = eAOD_no_error
              THEN /\ sasl_username = Ptr(SubSeq(resp, 1, sp - 1))
                   /\ sasl_method = Ptr(call.method)
              ELSE sasl_username = Null /\ sasl_method = Null

\* C6 amended: the decoded CRAM-MD5 response counts up to its first NUL
\* byte.  When that C string has a space, od_validate_response is called
\* once, with the bytes before the first space, the challenge that was
\* sent, and the bytes behind the first space up to the first NUL; the
\* identity is stored, with that user name, iff the call succeeds.
C6_CramSplitsCString ==
    LET resp == CStr(DecodedLine(1).str)
        sp == IndexFrom(resp, SP, 1)
    IN  (CramDecoded /\ sp # 0)
        => /\ Len(StoreCalls) = 1
           /\ StoreCalls[1].op = "od_validate_response"
           /\ StoreCalls[1].a = SubSeq(resp, 1, sp - 1)
           /\ events[1].op = "smtpd_chat_reply"
           /\ events[1].r = "334 %s"
           /\ base64_decode(events[1].a).ok
           /\ StoreCalls[1].b = CramChallengeSent
           /\ StoreCalls[1].c = SubSeq(resp, sp + 1, Len(resp))
           /\ IF StoreCalls[1].r = eAOD_no_error
              THEN /\ result = "NULL"
                   /\ sasl_username = Ptr(SubSeq(resp, 1, sp - 1))
                   /\ sasl_method = Ptr(call.method)
              ELSE /\ result = "535 Error: authentication failed"
                   /\ sasl_username = Null
                   /\ sasl_method = Null

\* C6 witness: a response "a a" was checked and accepted.
C6_Witness ==
    /\ CramDecoded
    /\ DecodedLine(1).str = <<97, SP, 97>>
    /\ Len(StoreCalls) = 1
    /\ StoreCalls[1].c = <<97>>
    /\ result = "NULL"

\* a LOGIN attempt has returned after decoding both lines
LoginDecoded ==
    /\ Returned
    /\ IsLogin
    /\ Len(Queries) = 2
    /\ LineRead(1) # STAR
    /\ LineRead(2) # STAR
    /\ DecodedLine(1).ok
    /\ DecodedLine(2).ok

\* the dialogue of a LOGIN attempt that got both lines
LoginDialogue ==
    /\ Len(events) >= 4
    /\ events[1] = smtpd_chat_reply("334 %s", base64_encode(UsernamePrompt))
    /\ events[2].op = "smtpd_chat_query"
    /\ events[3] = smtpd_chat_reply("334 %s", base64_encode(PasswordPrompt))
    /\ events[4].op = "smtpd_chat_query"
    /\ Len(Replies) = 2

\* the outcome of a LOGIN attempt that checked user u and password p
LoginOutcome(u, p) ==
    /\ Len(StoreCalls) = 1
    /\ StoreCalls[1].op = "od_do_clear_text_auth"
    /\ StoreCalls[1].a = u
    /\ StoreCalls[1].b = p
    /\ Last(events) = StoreCalls[1]
    /\ IF StoreCalls[1].r = eAOD_no_error
       THEN /\ result = "NULL"
            /\ sasl_username = Ptr(u)
            /\ sasl_method = Ptr(call.method)
       ELSE /\ result = "535 Error: authentication failed"
            /\ sasl_username = Null
            /\ sasl_method = Null

\* C7 as stated: an enabled LOGIN attempt sends the two prompts and reads
\* two lines in turn; when both decode, to u and p, od_do_clear_text_auth is
\* called once with (u, p), and the attempt succeeds with user name u and
\* the method asked for, or fails with 535 and no identity.
C7_LoginChecksAllBytes ==
    LoginDecoded
    => /\ LoginDialogue
       /\ LoginOutcome(DecodedLine(1).str, DecodedLine(2).str)

\* C7 amended: as C7, with u and p each cut at its first NUL byte.
C7_LoginChecksCStrings ==
    LoginDecoded
    => /\ LoginDialogue
       /\ LoginOutcome(CStr(DecodedLine(1).str), CStr(DecodedLine(2).str))

\* C7 witness: user "a" with password "\a" was accepted under the name asked
\* for, "login".
C7_Witness ==
    /\ LoginDecoded
    /\ DecodedLine(1).str = <<97>>
    /\ DecodedLine(2).str = <<7>>
    /\ result = "NULL"
    /\ sasl_method = Ptr(login)

\* the base64 text a PLAIN attempt decodes: the initial response, or the
\* line read
PlainHasText == call.init_response # Null \/ Queries # <<>>
PlainText ==
    IF call.init_response # Null THEN Val(call.init_response)
    ELSE LineRead(1)

\* an enabled PLAIN attempt has returned after decoding its text
PlainDecoded ==
    /\ Returned
    /\ IsPlain
    /\ FreshCall
    /\ BitSet(smtpd_pw_server_sasl_opts, PW_SERVER_PLAIN)
    /\ PlainHasText
    /\ base64_decode(PlainText).ok

\* the fields of a payload, split at its NUL bytes
RECURSIVE Fields(_)
Fields(s) ==
    LET z == IndexFrom(s, NUL, 1)
    IN  IF z = 0 THEN << s >>
        ELSE << SubSeq(s, 1, z - 1) >> \o Fields(SubSeq(s, z + 1, Len(s)))

\* the outcome of a PLAIN attempt that checked user u and password p
PlainChecked(u, p) ==
    /\ Len(StoreCalls) = 1
    /\ StoreCalls[1].op = "od_do_clear_text_auth"
    /\ StoreCalls[1].a = u
    /\ StoreCalls[1].b = p
    /\ StoreCalls[1].r = eAOD_no_error
       => /\ result = "NULL"
          /\ sasl_username = Ptr(u)
          /\ sasl_method = Ptr(call.method)

\* C8: a PLAIN payload NUL u NUL p, u and p without NUL, has
\* od_do_clear_text_auth called once with (u, p); when that succeeds the
\* attempt succeeds with user name u and the method asked for.
C8_PlainEmptyAuthzid ==
    LET f == Fields(base64_decode(PlainText).str)
    IN  (PlainDecoded /\ Len(f) = 3 /\ f[1] = <<>>)
        => PlainChecked(f[2], f[3])

\* C8 witness: the payload NUL "a" NUL "b" was accepted.
C8_Witness ==
    /\ PlainDecoded
    /\ base64_decode(PlainText).str = <<NUL, 97, NUL, 98>>
    /\ result = "NULL"
    /\ sasl_username = Ptr(<<97>>)

\* C9: every PLAIN payload authzid NUL authcid NUL password has
\* od_do_clear_text_auth called with (authcid, password), and on success
\* the user name stored is authcid.
C9_PlainChecksAuthcid ==
    LET f == Fields(base64_decode(PlainText).str)
    IN  (PlainDecoded /\ Len(f) = 3)
        => PlainChecked(f[2], f[3])

\* C10: an enabled PLAIN attempt with an initial response sends no
\* challenge and reads no line; without one it sends one bare "334" and
\* reads one line; either way the text is then decoded, and a text that
\* does not decode ends the attempt with a 501 "malformed" reply and no
\* directory service call.
C10_PlainInitialResponse ==
    (InAttempt /\ IsPlain /\ FreshCall
        /\ BitSet(smtpd_pw_server_sasl_opts, PW_SERVER_PLAIN))
    => /\ IF call.init_response # Null
          THEN pc = "idle" /\ Replies = <<>> /\ Queries = <<>>
          ELSE /\ Replies = << smtpd_chat_reply("334", <<>>) >>
               /\ events[1] = Replies[1]
               /\ Len(Queries) = IF pc = "idle" THEN 1 ELSE 0
               /\ pc = "idle" => events[2] = Queries[1]
       /\ pc = "idle"
          => IF base64_decode(PlainText).ok
             THEN /\ vs_base64 = base64_decode(PlainText).str
                  /\ Len(StoreCalls) = 1
             ELSE /\ result \in RepliesMalformed
                  /\ StoreCalls = <<>>

\* C10 witness: an initial response that is not base64 was turned down.
C10_Witness ==
    /\ Returned
    /\ IsPlain
    /\ call.init_response = Ptr(BadLine)
    /\ events = <<>>
    /\ result \in RepliesMalformed

\* the operation that ran last, for the operations other than authenticate
Ran(op) == result = op

\* the calls of these routines among evs
OpsIn(evs, names) == SelectSeq(evs, LAMBDA e : e.op \in names)

\* C11: smtpd_sasl_initialize on a process whose implementation handle is
\* set ends the process before it calls xsasl_server_init, and no step ever
\* replaces a handle that is set; a first call makes exactly one
\* xsasl_server_init call, and the process ends when that returns null.
C11_InitializeOnce ==
    [][ /\ smtpd_sasl_impl # 0 => smtpd_sasl_impl' = smtpd_sasl_impl
        /\ IF result' = "smtpd_sasl_initialize"
           THEN IF smtpd_sasl_impl # 0
                THEN /\ proc' = "msg_panic"
                     /\ events' = <<>>
                ELSE /\ events' = << xsasl_server_init(smtpd_sasl_impl') >>
                     /\ proc' = IF smtpd_sasl_impl' = 0
                                THEN "msg_fatal" ELSE "up"
           ELSE OpsIn(events', {"xsasl_server_init"}) = <<>>
      ]_vars

\* C11 witness: a second smtpd_sasl_initialize call has ended the process.
C11_Witness ==
    /\ Ran("smtpd_sasl_initialize")
    /\ smtpd_sasl_impl # 0
    /\ proc = "msg_panic"
    /\ events = <<>>

\* the pointer fields of the session state, by name
Field(fld) ==
    CASE fld = "sasl_reply" -> sasl_reply
      [] fld = "sasl_mechanism_list" -> sasl_mechanism_list
      [] fld = "sasl_username" -> sasl_username
      [] fld = "sasl_method" -> sasl_method
      [] fld = "sasl_sender" -> sasl_sender
PointerFields == {"sasl_reply", "sasl_mechanism_list", "sasl_username",
                  "sasl_method", "sasl_sender"}
ReleaseOps == {"vstring_free", "myfree", "xsasl_server_free"}

\* C12: only smtpd_sasl_disconnect and smtpd_sasl_logout release anything;
\* in one call each field is released at most once, only when it is not
\* null, and is null afterwards; a backend context that is released is the
\* one of the session, was never released before, and a backend context the
\* session still points to is not a released one.
C12_ReleasedOnce ==
    /\ [](sasl_server # 0 => sasl_server \notin freed)
    /\ [][ LET rel == OpsIn(events', ReleaseOps)
               srv == OpsIn(events', {"xsasl_server_free"})
           IN  IF result' \in {"smtpd_sasl_disconnect", "smtpd_sasl_logout"}
               THEN /\ \A fld \in PointerFields :
                         LET n == Len(SelectSeq(rel, LAMBDA e : e.r = fld))
                         IN  /\ n = IF Field(fld) # Null /\ Field(fld)' = Null
                                    THEN 1 ELSE 0
                             /\ n = 0 => Field(fld)' = Field(fld)
                    /\ Len(srv) <= 1
                    /\ IF Len(srv) = 1
                       THEN /\ srv[1].a = sasl_server
                            /\ sasl_server # 0
                            /\ sasl_server \notin freed
                            /\ sasl_server' = 0
                            /\ freed' = freed \cup {sasl_server}
                       ELSE /\ sasl_server' = sasl_server
                            /\ freed' = freed
               ELSE rel = <<>> /\ freed' = freed
         ]_vars

\* C12 witness: smtpd_sasl_disconnect has run on a session that was
\* disconnected before, and has released nothing.
C12_Witness ==
    /\ Ran("smtpd_sasl_disconnect")
    /\ freed # {}
    /\ events = <<>>

\* the attempt has returned success
Succeeded == Returned /\ result \in {"0", "NULL"}

\* C13: after every successful authentication, by any mechanism, the user
\* name stored holds no non-printable byte.
C13_UsernamePrintable ==
    Succeeded
    => /\ sasl_username # Null
       /\ \A i \in 1..Len(Val(sasl_username)) : IsPrint(Val(sasl_username)[i])

\* the attempt has returned without success: aborted, malformed response,
\* mechanism not enabled or not supported, or verification failed
Failure == Returned /\ result \notin {"0", "NULL", "msg_panic"}

\* C14: an authenticate attempt that starts on an unauthenticated context
\* and returns without success leaves sasl_username and sasl_method null and
\* the process running, with the mechanism list, the reply buffer and the
\* backend context in place; no step of an authenticate call changes the
\* mechanism list or the backend context, or releases either.
C14_FailureKeepsSession ==
    /\ []((Failure /\ FreshCall)
          => /\ sasl_username = Null
             /\ sasl_method = Null
             /\ proc = "up"
             /\ sasl_mechanism_list # Null
             /\ sasl_reply # Null
             /\ sasl_server # 0
             /\ sasl_server \notin freed)
    /\ [][ call'.api # "none"
           => /\ sasl_mechanism_list' = sasl_mechanism_list
              /\ sasl_server' = sasl_server
              /\ freed' = freed
              /\ sasl_reply # Null
              /\ sasl_reply' # Null
         ]_vars

\* C14 witness: the clear text check of a LOGIN attempt has failed.
C14_Witness ==
    /\ Failure
    /\ FreshCall
    /\ IsLogin
    /\ Len(StoreCalls) = 1
    /\ result = "535 Error: authentication failed"

\* a read or write of the authenticate call has returned abnormally
Interrupted == call.api # "none" /\ result = "longjmp"

\* C15: when a read or write of an authenticate call returns abnormally,
\* the call is over: it waits for no line, the failed read or write is the
\* last thing it did, it has made no directory service call and has not
\* asked the backend for the user name, and sasl_username and sasl_method
\* are as they were before the call, null on an unauthenticated context.
C15_InterruptedStoresNothing ==
    Interrupted
    => /\ pc = "idle"
       /\ events # <<>>
       /\ Last(events).op = "smtpd_chat_reply"
       /\ StoreCalls = <<>>
       /\ Ops({"xsasl_server_get_username"}) = <<>>
       /\ sasl_username = call.sasl_username
       /\ sasl_method = call.sasl_method

\* C15 witness: the write of the 235 reply has failed, after the backend
\* reported XSASL_AUTH_DONE.
C15_Witness ==
    /\ Interrupted
    /\ Generic
    /\ FreshCall
    /\ Last(events).r = "235 2.7.0 Authentication successful"
    /\ sasl_username = Null

\* outcomes of an attempt that has returned, read from what it did, and the
\* last reply it produced: sent by smtpd_sasl_authenticate, returned for
\* sending by smtpd_pw_server_authenticate
VerificationFailed ==
    IF Generic
    THEN /\ OpsIn(events, {"xsasl_server_first", "xsasl_server_next"}) # <<>>
         /\ Last(OpsIn(events, {"xsasl_server_first",
                                "xsasl_server_next"})).r = XSASL_AUTH_FAIL
         /\ result = "-1"
    ELSE StoreCalls # <<>> /\ Last(StoreCalls).r # eAOD_no_error
Aborted ==
    /\ Queries # <<>>
    /\ Last(Queries).a = STAR
    /\ ~IsPlain
    /\ IF Generic THEN Last(events).op = "smtpd_chat_reply"
       ELSE Last(events).op = "smtpd_chat_query"
FinalReply == IF Generic THEN Last(Replies).r ELSE result

\* C16: in every mechanism a failed verification ends with the reply "535
\* 5.7.8 Error: authentication failed", an abort by the client with "501
\* 5.7.0 Authentication aborted", and a success of the generic mechanism
\* with "235 2.7.0 Authentication successful".
C16_FixedWireStrings ==
    (Returned /\ FreshCall)
    => /\ VerificationFailed
          => FinalReply = "535 5.7.8 Error: authentication failed: %s"
       /\ Aborted => FinalReply = "501 5.7.0 Authentication aborted"
       /\ (Generic /\ result = "0")
          => FinalReply = "235 2.7.0 Authentication successful"

\* the backend calls of a generic attempt that report a status, and the
\* user name the backend reported
StatusCalls == OpsIn(events, {"xsasl_server_first", "xsasl_server_next"})
NameCalls == OpsIn(events, {"xsasl_server_get_username"})

\* what C17 says of a generic attempt whose last backend status is not
\* XSASL_AUTH_DONE: it returns -1, after a 535 reply with the backend's text
\* when the backend failed, and the identity is as before the call
GenericFailure ==
    /\ result = "-1"
    /\ Last(StatusCalls).r = XSASL_AUTH_FAIL
       => Last(events) = smtpd_chat_reply(
              "535 5.7.8 Error: authentication failed: %s",
              Last(StatusCalls).c)
    /\ sasl_username = call.sasl_username
    /\ sasl_method = call.sasl_method

\* and of one whose last backend status is XSASL_AUTH_DONE: it returns 0
\* with the backend's user name and the method asked for, both sanitised
GenericSuccess ==
    /\ result = "0"
    /\ Len(NameCalls) = 1
    /\ NameCalls[1].a # Null
    /\ sasl_username = Ptr(printable(Val(NameCalls[1].a)))
    /\ sasl_method = Ptr(printable(call.method))

\* C17 as stated: smtpd_sasl_authenticate returns 0 exactly when the last
\* backend status is XSASL_AUTH_DONE, with the backend's user name and the
\* method stored; in every other case it returns -1 and keeps the identity.
C17_GenericReturns ==
    (Returned /\ Generic)
    => /\ StatusCalls # <<>>
       /\ IF Last(StatusCalls).r = XSASL_AUTH_DONE
          THEN GenericSuccess
          ELSE GenericFailure

\* C17 amended: as C17, except that when the last backend status is
\* XSASL_AUTH_DONE and xsasl_server_get_username returns null the call does
\* not return: the 235 reply has been sent, the process ends in msg_panic
\* and the identity is as before the call.
C17_GenericReturnsOrPanics ==
    (Returned /\ Generic)
    => /\ StatusCalls # <<>>
       /\ IF Last(StatusCalls).r # XSASL_AUTH_DONE
          THEN GenericFailure /\ proc = "up"
          ELSE IF Len(NameCalls) = 1 /\ NameCalls[1].a # Null
          THEN GenericSuccess /\ proc = "up"
          ELSE /\ result = "msg_panic"
               /\ proc = "msg_panic"
               /\ Len(NameCalls) = 1
               /\ Last(Replies).r = "235 2.7.0 Authentication successful"
               /\ sasl_username = call.sasl_username
               /\ sasl_method = call.sasl_method

\* C17 witness: the backend's user name "\aa" was stored as "?a" and the
\* method "X\a" as "X?".
C17_Witness ==
    /\ Returned
    /\ Generic
    /\ result = "0"
    /\ NameCalls[1].a = Ptr(<<7, 97>>)
    /\ sasl_username = Ptr(<<63, 97>>)
    /\ sasl_method = Ptr(<<88, 63>>)

\* the fields that are released in the calls evs
ReleasedIn(evs) == {evs[i].r : i \in 1..Len(evs)}

\* C18: smtpd_sasl_logout leaves sasl_username and sasl_method null, having
\* released those that were set, and leaves the mechanism list, the reply
\* buffer, the sender and the backend context as they were;
\* smtpd_sasl_disconnect leaves all six fields null, having released each
\* one that was set.
C18_LogoutAndDisconnect ==
    [][ /\ result' = "smtpd_sasl_logout"
           => /\ sasl_username' = Null
              /\ sasl_method' = Null
              /\ ReleasedIn(events') =
                     {fld \in {"sasl_username", "sasl_method"} :
                          Field(fld) # Null}
              /\ sasl_mechanism_list' = sasl_mechanism_list
              /\ sasl_reply' = sasl_reply
              /\ sasl_sender' = sasl_sender
              /\ sasl_server' = sasl_server
              /\ freed' = freed
        /\ result' = "smtpd_sasl_disconnect"
           => /\ \A fld \in PointerFields : Field(fld)' = Null
              /\ sasl_server' = 0
              /\ ReleasedIn(events') =
                     {fld \in PointerFields : Field(fld) # Null}
                     \cup (IF sasl_server # 0 THEN {"sasl_server"} ELSE {})
              /\ sasl_server # 0 => sasl_server \in freed'
      ]_vars

\* C18 witness: smtpd_sasl_logout has released the identity of an
\* authenticated session and kept the rest of it, the sender included.
C18_Witness ==
    /\ Ran("smtpd_sasl_logout")
    /\ ReleasedIn(events) = {"sasl_username", "sasl_method"}
    /\ sasl_username = Null
    /\ sasl_mechanism_list # Null
    /\ sasl_reply # Null
    /\ sasl_sender # Null
    /\ sasl_server # 0

\* C19: smtpd_sasl_connect asks the backend for one new context and ends
\* the process when it gets none; otherwise it asks for the mechanism list
\* of that context and ends the process when it gets none; otherwise it
\* returns with sasl_username, sasl_method and sasl_sender null, an empty
\* reply buffer, the new context and a copy of that list.  No step of an
\* authenticate call and no smtpd_sasl_logout changes the mechanism list.
C19_ConnectSetsMechanismList ==
    [][ /\ result' = "smtpd_sasl_connect"
           => LET created == OpsIn(events', {"xsasl_server_create"})
                  listed == OpsIn(events',
                                  {"xsasl_server_get_mechanism_list"})
              IN  /\ Len(created) = 1
                  /\ sasl_username' = Null
                  /\ sasl_method' = Null
                  /\ sasl_sender' = Null
                  /\ sasl_reply' = Ptr(<<>>)
                  /\ sasl_server' = created[1].r
                  /\ IF created[1].r = 0
                     THEN proc' = "msg_fatal" /\ listed = <<>>
                     ELSE /\ created[1].r \notin freed
                          /\ Len(listed) = 1
                          /\ listed[1].a = created[1].r
                          /\ IF listed[1].c = Null
                             THEN proc' = "msg_fatal"
                             ELSE /\ proc' = "up"
                                  /\ sasl_mechanism_list' # Null
                                  /\ Val(sasl_mechanism_list')
                                         = Val(listed[1].c)
        /\ (call'.api # "none" \/ result' = "smtpd_sasl_logout")
           => sasl_mechanism_list' = sasl_mechanism_list
      ]_vars

\* C19 witness: smtpd_sasl_connect has returned with the list "CRAM-MD5"
\* the backend reported.
C19_Witness ==
    /\ Ran("smtpd_sasl_connect")
    /\ proc = "up"
    /\ sasl_server # 0
    /\ sasl_username = Null
    /\ sasl_mechanism_list = Ptr(<<CRAM_MD5>>)

\* buf holds the bytes s somewhere
Holds(buf, s) ==
    \E i \in 1..(Len(buf) - Len(s) + 1) : SubSeq(buf, i, i + Len(s) - 1) = s

\* C20: when a LOGIN or PLAIN attempt that checked a password has returned,
\* none of the handler's buffers holds that password.
C20_SecretsDiscarded ==
    (Returned /\ (IsLogin \/ IsPlain) /\ StoreCalls # <<>>
        /\ StoreCalls[1].b # <<>>)
    => /\ ~Holds(vs_pwd, StoreCalls[1].b)
       /\ ~Holds(vs_base64, StoreCalls[1].b)

\* what may follow event i of a generic attempt, as far as the attempt has
\* got: a status call that reports XSASL_AUTH_MORE is followed by the 334
\* reply with its text, that by a read, and the read by the 501 reply and
\* nothing else when the line is "*", and else by xsasl_server_next with the
\* line; a status call that reports something else is followed by no 334
\* reply and no status call
GenericStep(i) ==
    LET e == events[i]
        n == Len(events)
    IN  IF e.op \in {"xsasl_server_first", "xsasl_server_next"}
        THEN IF e.r = XSASL_AUTH_MORE
             THEN i < n /\ events[i + 1] = smtpd_chat_reply("334 %s", e.c)
             ELSE \A j \in (i + 1)..n :
                      /\ events[j].op \notin {"xsasl_server_first",
                                              "xsasl_server_next",
                                              "smtpd_chat_query"}
                      /\ events[j].r # "334 %s"
        ELSE IF e.op = "smtpd_chat_reply" /\ e.r = "334 %s"
        THEN i < n => events[i + 1].op = "smtpd_chat_query"
        ELSE IF e.op = "smtpd_chat_query"
        THEN i < n
             => IF e.a = STAR
                THEN /\ n = i + 1
                     /\ events[n] = smtpd_chat_reply(
                            "501 5.7.0 Authentication aborted", <<>>)
                ELSE /\ events[i + 1].op = "xsasl_server_next"
                     /\ events[i + 1].a = e.a
        ELSE i = n \/ events[i + 1].op = "xsasl_server_get_username"

\* C21: a generic attempt calls xsasl_server_first once, first of all;
\* every XSASL_AUTH_MORE is followed by one 334 reply with the backend's
\* challenge and one read; a line "*" ends the attempt with no further
\* backend call, any other line is handed to xsasl_server_next once; no
\* challenge is sent after another status.
C21_GenericExchange ==
    (Generic /\ events # <<>>)
    => /\ events[1].op = "xsasl_server_first"
       /\ Len(OpsIn(events, {"xsasl_server_first"})) = 1
       /\ \A i \in 1..Len(events) : GenericStep(i)
       /\ (pc = "idle" /\ result # "longjmp")
          => Last(events).op \notin {"smtpd_chat_query", "xsasl_server_first",
                                     "xsasl_server_next"}

\* C21 witness: after one challenge the client gave up.
C21_Witness ==
    /\ Generic
    /\ Returned
    /\ Len(events) = 4
    /\ events[1].r = XSASL_AUTH_MORE
    /\ events[3] = smtpd_chat_query(STAR)
    /\ result = "-1"

(***************************************************************************)
(* Termination.  The handler blocks only in smtpd_chat_query and in the    *)
(* read of get_random_chars; LiveSpec assumes that every transport read    *)
(* returns, with a line or abnormally, and that the random device yields   *)
(* an alphanumeric byte again and again.  The backend leaves               *)
(* XSASL_AUTH_MORE after MaxRounds rounds at the latest.                   *)
(***************************************************************************)
LineArrives ==
    \/ /\ pc = "smtpd_sasl_authenticate"
       /\ \E line \in GenericLines, status \in XSASLStatus,
             username \in BackendUsers :
          \E text \in BackendText(status) :
              smtpd_sasl_authenticate_line(line, status, text, username)
    \/ /\ pc = "do_auth_login:user"
       /\ \E line \in LoginLines : do_auth_login_user(line)
    \/ /\ pc = "do_auth_login:pwd"
       /\ \E line \in LoginLines : do_auth_login_pwd(line)
    \/ /\ pc = "do_auth_plain"
       /\ \E line \in PlainLines : do_auth_plain_line(line)
    \/ /\ pc = "do_auth_cram_md5"
       /\ \E line \in CramLines : do_auth_cram_md5_line(line)

EntropyArrives ==
    /\ pc = "get_random_chars"
    /\ \E byte \in RandomBytes : IsAlnum(byte) /\ get_random_chars_read(byte)

LiveSpec == Spec /\ WF_vars(LineArrives) /\ WF_vars(EntropyArrives)

\* the authenticate call is over and was not cut short by a failed read or
\* write
Ended == call # NoCall /\ pc = "idle" /\ result # "longjmp"

OutcomeSuccess == result \in {"0", "NULL"} /\ sasl_username # Null
OutcomeAbort ==
    /\ result \notin {"0", "NULL", "msg_panic"}
    /\ FinalReply \in {"501 5.7.0 Authentication aborted",
                       "501 Authentication aborted"}
OutcomeFailure ==
    /\ result \notin {"0", "NULL", "msg_panic"}
    /\ FinalReply \notin {"501 5.7.0 Authentication aborted",
                          "501 Authentication aborted"}
    /\ sasl_username = call.sasl_username

\* the call has returned to a running process with exactly one of the three
\* outcomes
OneOutcome ==
    /\ proc = "up"
    /\ OutcomeSuccess \/ OutcomeAbort \/ OutcomeFailure
    /\ ~(OutcomeSuccess /\ OutcomeAbort)
    /\ ~(OutcomeSuccess /\ OutcomeFailure)
    /\ ~(OutcomeAbort /\ OutcomeFailure)

\* msg_panic has ended the process: in a call of smtpd_pw_server_authenticate
\* on a context that has an identity, or in a generic attempt whose backend
\* reported XSASL_AUTH_DONE and has no user name
Panicked ==
    /\ proc = "msg_panic"
    /\ result = "msg_panic"
    /\ \/ PwServer /\ ~FreshCall /\ events = <<>>
       \/ /\ Generic
          /\ Last(StatusCalls).r = XSASL_AUTH_DONE
          /\ Last(events) = xsasl_server_get_username(Null)

\* a call that is over stays over: the next step is its caller's
StaysEnded == [][(call # NoCall /\ pc = "idle") => call' = NoCall]_vars

\* the client lines an attempt reads: LOGIN at most two, PLAIN at most one,
\* CRAM-MD5 exactly one when it is enabled and the attempt returns
LinesRead ==
    /\ IsLogin => Len(Queries) <= 2
    /\ IsPlain => Len(Queries) <= 1
    /\ (IsCramMd5 /\ Returned /\ FreshCall
        /\ CramMd5Enabled(smtpd_pw_server_sasl_opts))
       => Len(Queries) = 1

\* C22 as stated: if every read returns a line, the backend leaves
\* XSASL_AUTH_MORE after finitely many rounds and the random device goes on
\* yielding alphanumeric bytes, every authenticate attempt eventually ends,
\* in exactly one of success, failure and abort, and is not continued after
\* it; a LOGIN attempt reads at most two lines, a PLAIN attempt at most one
\* and an enabled CRAM-MD5 attempt exactly one.
C22_EndsInThreeOutcomes ==
    /\ (pc # "idle") ~> (pc = "idle")
    /\ [](Ended => OneOutcome)
    /\ StaysEnded
    /\ []LinesRead

\* C22: under the same assumptions every authenticate attempt eventually
\* ends and is not continued after it: it returns with exactly one of
\* success, failure and abort, or msg_panic ends the process, or a failed
\* read or write cuts it short; a LOGIN attempt reads at most two lines, a
\* PLAIN attempt at most one and an enabled CRAM-MD5 attempt exactly one.
C22_AttemptsEnd ==
    /\ (pc # "idle") ~> (pc = "idle")
    /\ [](Ended => (OneOutcome \/ Panicked))
    /\ StaysEnded
    /\ []LinesRead

\* C22 witness: a CRAM-MD5 attempt has waited for sixteen alphanumeric
\* bytes, read one line and ended in success.
C22_Witness ==
    /\ IsCramMd5
    /\ Ended
    /\ OutcomeSuccess
    /\ Len(Queries) = 1
    /\ vs_chal = ChallengeString(1, [i \in 1..(RandBufLen - 1) |-> 65], 1000,
                                 HostName)

\* the directory service call of this attempt that verified user
VerifiedBy(evs, user) ==
    /\ OpsIn(evs, {"od_do_clear_text_auth", "od_validate_response"}) # <<>>
    /\ LET chk == Last(OpsIn(evs, {"od_do_clear_text_auth",
                                   "od_validate_response"}))
       IN  /\ chk.r = eAOD_no_error
           /\ chk.a = user

\* C23: a step of a LOGIN, PLAIN or CRAM-MD5 attempt sets sasl_username
\* only if a directory service call of that attempt has returned success
\* for the very user name stored; whatever lines the client sends, an
\* attempt on an unauthenticated context that has an identity afterwards
\* has made such a call.
C23_StoredOnlyIfVerified ==
    /\ [][(call'.api = "smtpd_pw_server_authenticate"
           /\ sasl_username' # sasl_username)
          => /\ sasl_username' # Null
             /\ VerifiedBy(events', Val(sasl_username'))]_vars
    /\ []((PwServer /\ FreshCall /\ (sasl_username # Null \/ sasl_method # Null))
          => /\ sasl_username # Null
             /\ VerifiedBy(events, Val(sasl_username)))

\* C23 witness: a CRAM-MD5 attempt has stored the user name its one
\* directory service call verified.
C23_Witness ==
    /\ IsCramMd5
    /\ Returned
    /\ FreshCall
    /\ sasl_username # Null
    /\ Len(StoreCalls) = 1
    /\ StoreCalls[1].op = "od_validate_response"
    /\ VerifiedBy(events, Val(sasl_username))

\* the client has been sent the success reply in this generic attempt: the
\* reply was written, and the write did not fail
SuccessReplySent ==
    /\ Generic
    /\ \E i \in 1..Len(events) :
           /\ events[i] = smtpd_chat_reply(
                  "235 2.7.0 Authentication successful", <<>>)
           /\ ~(Interrupted /\ i = Len(events))

\* C24: a generic attempt that has sent the reply "235 2.7.0 Authentication
\* successful" is over, has returned 0 and has stored sasl_username and
\* sasl_method; no attempt that sent it ends without a stored identity.
C24_SuccessReplyMeansAuthenticated ==
    SuccessReplySent
    => /\ pc = "idle"
       /\ result = "0"
       /\ proc = "up"
       /\ sasl_username # Null
       /\ sasl_method # Null

\* C25: whatever payload a PLAIN attempt decoded, the empty one, a single
\* NUL and one with fewer than two NUL separators included, the user and
\* the password handed to od_do_clear_text_auth start inside the decoded
\* payload or at its one terminating NUL: the handler reads no byte behind
\* the terminator.
C25_PlainFieldsInBuffer ==
    (IsPlain /\ StoreCalls # <<>>)
    => LET buf == Append(vs_base64, NUL)
       IN  /\ PlainUserAt(buf) <= Len(buf)
           /\ PlainPwdAt(PlainUserAt(buf), StoreCalls[1].a) <= Len(buf)

====
